---------------------------- MODULE Spec2Model ----------------------------
(***************************************************************************)
(* Request-template resolution of the quest command line tool.             *)
(*                                                                         *)
(*   src/src/quest.rs  ConfiguredValue::value, Quest::vars / params /      *)
(*                     headers / url / request, QuestFile::retrieve        *)
(*   src/src/main.rs   QuestCli::run (the go sub-command)                  *)
(*                                                                         *)
(* Strings are kept as TLA+ strings; a URL is a sequence of tokens, each   *)
(* either literal text or a ${NAME} placeholder.  A Rust HashMap is a      *)
(* sequence of (key, value) pairs without repeated keys whose order is the *)
(* map's iteration order, which the hasher's per-process random seed       *)
(* decides: every permutation is possible.  A panic (expect, unwrap,       *)
(* panic!) ends the run at pc = "panic" with its message in err.           *)
(*                                                                         *)
(* Three specifications: Spec runs Quest::request, SpecRun the go command  *)
(* of QuestCli::run, SpecValue a single ConfiguredValue::value.            *)
(***************************************************************************)
EXTENDS Naturals, Sequences, FiniteSets

VARIABLES
    env,           \* the process environment: name -> value, or None when unset
    cv,            \* a ConfiguredValue handed to ConfiguredValue::value
    result,        \* what ConfiguredValue::value returned for cv
    self,          \* the Quest that Quest::request is called on
    method,        \* request's method argument
    extraVars,     \* request's vars argument (CLI overrides)
    extraParams,   \* request's params argument (CLI overrides)
    extraHeaders,  \* request's headers argument (CLI overrides)
    pc,            \* position in the running function
    vars,          \* the HashMap built by Quest::vars inside Quest::url
    url,           \* local url of Quest::request
    params,        \* local params of Quest::request (a HashMap)
    headers,       \* local headers of Quest::request (a HeaderMap)
    client,        \* the client's default header map
    req,           \* the request that was built, or NoReq
    questfile,     \* QuestFile.quests as the driver deserialised it
    name,          \* the quest name given on the command line
    quest,         \* the driver's retrieved quest
    err            \* the panic message once a call panicked, else None

allvars == <<env, cv, result, self, method, extraVars, extraParams, extraHeaders,
             pc, vars, url, params, headers, client, req, questfile, name, quest, err>>

(***************************************************************************)
(* Bounds of the model.                                                    *)
(***************************************************************************)
\* configured entries of one kind in a quest: quest-level plus method-level
MaxEntries == 2
\* CLI overrides of one kind
MaxExtra == 1
\* quests in a quest file
MaxQuests == 2

(***************************************************************************)
(* Values.                                                                 *)
(***************************************************************************)
\* Option::None
None == "<None>"

Get == "get"
Post == "post"
\* enum Method
Methods == {Get, Post}

SeqsUpTo(S, n) == UNION {[1..k -> S] : k \in 0..n}

\* the result of a call that returned normally
Ok(v) == [tag |-> "Ok", v |-> v]
\* Result::Err
Err(e) == [tag |-> "Err", v |-> e]
\* the call panicked with this message
Panic(msg) == [tag |-> "Panic", v |-> msg]

(***************************************************************************)
(* ConfiguredValue::value                                                  *)
(***************************************************************************)
\* std::env::var
EnvVar(e, n) == IF n \in DOMAIN e /\ e[n] # None THEN Ok(e[n]) ELSE Err("NotPresent")

ValueEnvFirst(c, e) ==
    IF c.from # None THEN EnvVar(e, c.from)
    ELSE IF c.value # None THEN Ok(c.value)
    ELSE Panic("One of value or valueFrom must be configured.")

Value(c, e) ==
    IF c.value # None THEN Ok(c.value)
    ELSE IF c.from # None THEN EnvVar(e, c.from)
    ELSE Panic("One of value or valueFrom must be configured.")

\* ConfiguredValue::key
Key(c) == c.key

(***************************************************************************)
(* Quest::vars, Quest::params: the layers, then collect into a HashMap     *)
(***************************************************************************)
\* self.<field>.clone() extended by the selected method's entries, if any
Configured(q, m, field) ==
    q[field] \o (IF m \in DOMAIN q.methods THEN q.methods[m][field] ELSE <<>>)

\* .map(|v| (v.key(), v.value().expect("Missing environment variable")))
\* skipping the entries that do not resolve instead of panicking
ResolveAllLenient(list, e) ==
    LET good == {i \in 1..Len(list) : Value(list[i], e).tag = "Ok"}
        idx == CHOOSE s \in [1..Cardinality(good) -> good] :
                   \A a, b \in 1..Cardinality(good) : a < b => s[a] < s[b]
    IN  Ok([i \in 1..Cardinality(good) |-> <<Key(list[idx[i]]), Value(list[idx[i]], e).v>>])

\* .map(|v| (v.key(), v.value().expect("Missing environment variable"))).collect()
ResolveAll(list, e) ==
    LET bad == {i \in 1..Len(list) : Value(list[i], e).tag # "Ok"}
    IN  IF bad # {}
        THEN LET i == CHOOSE i \in bad : \A j \in bad : i <= j
             IN  IF Value(list[i], e).tag = "Err"
                 THEN Panic("Missing environment variable")
                 ELSE Value(list[i], e)
        ELSE Ok([i \in 1..Len(list) |-> <<Key(list[i]), Value(list[i], e).v>>])

\* the Vec<(String, String)> of all layers, lowest first
Layers(q, m, field, extra, e) ==
    LET r == ResolveAll(Configured(q, m, field), e)
    IN  IF r.tag = "Panic" THEN r ELSE Ok(r.v \o extra)

KeysOf(pairs) == {pairs[i][1] : i \in 1..Len(pairs)}

FirstIndex(pairs, k) ==
    CHOOSE i \in 1..Len(pairs) : pairs[i][1] = k /\ \A j \in 1..(i - 1) : pairs[j][1] # k

LastIndex(pairs, k) ==
    CHOOSE i \in 1..Len(pairs) : pairs[i][1] = k /\ \A j \in (i + 1)..Len(pairs) : pairs[j][1] # k

InsertedFirstWins(pairs, k) == pairs[FirstIndex(pairs, k)][2]

\* HashMap::insert replaces the value of a key that is present
Inserted(pairs, k) == pairs[LastIndex(pairs, k)][2]

Perms(S) == {s \in [1..Cardinality(S) -> S] : \A a, b \in 1..Cardinality(S) : a # b => s[a] # s[b]}

\* into_iter().collect::<HashMap<String, String>>(): one map, in any iteration order
HashMaps(pairs) ==
    {[i \in 1..Len(p) |-> <<p[i], Inserted(pairs, p[i])>>] : p \in Perms(KeysOf(pairs))}

\* HashMap::get
Lookup(h, k) == h[CHOOSE i \in 1..Len(h) : h[i][1] = k][2]

\* Quest::vars: the outcomes of one call
QuestVars(q, m, extra, e) ==
    LET r == Layers(q, m, "vars", extra, e)
    IN  IF r.tag = "Panic" THEN {r} ELSE {Ok(h) : h \in HashMaps(r.v)}

\* Quest::params: the outcomes of one call
QuestParams(q, m, extra, e) ==
    LET r == Layers(q, m, "params", extra, e)
    IN  IF r.tag = "Panic" THEN {r} ELSE {Ok(h) : h \in HashMaps(r.v)}

(***************************************************************************)
(* Quest::headers: lower-cased names, collected into a HeaderMap.          *)
(* HeaderMap's FromIterator<(HeaderName, T)> extends the map with          *)
(* HeaderMap::append: a repeated name keeps every value.  The map iterates *)
(* its names in the order of their first insertion, and the values of one  *)
(* name in the order they were appended.                                   *)
(***************************************************************************)
\* String::to_lowercase on the header names of the model
ToLowercase(s) ==
    CASE s = "Content-Type" -> "content-type"
      [] s = "Accept" -> "accept"
      [] OTHER -> s

\* the (name, value) pairs with every name lower-cased
Lowercased(pairs) == [i \in 1..Len(pairs) |-> <<ToLowercase(pairs[i][1]), pairs[i][2]>>]

\* HeaderMap::iter over the map that appending pairs one by one builds
Appended(pairs) ==
    LET n == Len(pairs)
        before(i, j) == \/ FirstIndex(pairs, pairs[i][1]) < FirstIndex(pairs, pairs[j][1])
                        \/ pairs[i][1] = pairs[j][1] /\ i < j
        ord == CHOOSE s \in Perms(1..n) : \A a, b \in 1..n : a < b => before(s[a], s[b])
    IN  [i \in 1..n |-> pairs[ord[i]]]

\* Quest::headers
QuestHeaders(q, m, extra, e) ==
    LET r == Layers(q, m, "headers", extra, e)
    IN  IF r.tag = "Panic" THEN r ELSE Ok(Appended(Lowercased(r.v)))

\* the names of pairs in the order of their first occurrence
NamesInOrder(pairs) ==
    CHOOSE s \in Perms(KeysOf(pairs)) :
        \A a, b \in 1..Len(s) : a < b => FirstIndex(pairs, s[a]) < FirstIndex(pairs, s[b])

DefaultHeadersKeepFirst(hm) ==
    LET names == NamesInOrder(hm)
    IN  [i \in 1..Len(names) |-> <<names[i], InsertedFirstWins(hm, names[i])>>]

\* ClientBuilder::default_headers: HeaderMap::insert of every (name, value) of iter()
DefaultHeaders(hm) ==
    LET names == NamesInOrder(hm)
    IN  [i \in 1..Len(names) |-> <<names[i], Inserted(hm, names[i])>>]

(***************************************************************************)
(* Quest::url: envsubst::substitute(self.url.clone(), &vars).unwrap()      *)
(***************************************************************************)
\* literal text of a URL
Lit(s) == [ph |-> FALSE, text |-> s]
\* the placeholder ${n}
Ph(n) == [ph |-> TRUE, text |-> n]

\* envsubst rejects a key or a value that contains one of $ { }
HasForbidden(s) == s \in {"$"}

\* envsubst::substitute: replace ${k} by v for every (k, v) of the map; what
\* matches no key stays as it is
Substitute(template, h) ==
    IF h = <<>> THEN Ok(template)
    ELSE IF \E i \in 1..Len(h) : HasForbidden(h[i][1]) \/ HasForbidden(h[i][2])
    THEN Err("InvalidInput")
    ELSE Ok([i \in 1..Len(template) |->
                IF template[i].ph /\ template[i].text \in KeysOf(h)
                THEN Lit(Lookup(h, template[i].text))
                ELSE template[i]])

\* the placeholders a URL still holds
Placeholders(u) == {u[i].text : i \in {j \in 1..Len(u) : u[j].ph}}

(***************************************************************************)
(* Requests                                                                *)
(***************************************************************************)
NoBody == [form |-> None, content |-> None]
\* RequestBuilder::body
RawBody(b) == [form |-> "raw", content |-> b]
\* RequestBuilder::json: the serde_json serialisation of the value
JsonBody(j) == [form |-> "json", content |-> j]

ApplicationJson == "application/json"

NoUrl == [path |-> <<>>, query |-> <<>>]
NoReq == [method |-> None, url |-> NoUrl, headers |-> <<>>, body |-> NoBody,
          contentType |-> None]

\* Url::parse_with_params: the pairs are appended to the query as the map iterates
ParseWithParams(u, h) == [path |-> u, query |-> h]

\* r.body(body) when the entry has one
WithBody(r, send) ==
    IF send.body # None THEN [r EXCEPT !.body = RawBody(send.body)] ELSE r

\* r.json(&json) when the entry has one: sets the body, and the content type
\* unless the request has one
WithJson(r, send) ==
    IF send.json # None
    THEN [r EXCEPT !.body = JsonBody(send.json),
                   !.contentType = IF @ = None THEN ApplicationJson ELSE @]
    ELSE r

\* client.get(url) / client.post(url)
NewRequest(m, u, c) ==
    [method |-> m, url |-> u, headers |-> c, body |-> NoBody, contentType |-> None]

\* match method { Method::Get => client.get(url), Method::Post => { ... } }
MatchMethod(q, m, u, c) ==
    IF m = Get THEN Ok(NewRequest(m, u, c))
    ELSE IF m \notin DOMAIN q.methods
    THEN Panic("called Option::unwrap() on a None value")
    ELSE Ok(WithJson(WithBody(NewRequest(m, u, c), q.methods[m]), q.methods[m]))

(***************************************************************************)
(* Quest::request, one action for each call it makes                       *)
(***************************************************************************)
inputs == <<env, self, method, extraVars, extraParams, extraHeaders>>
driver == <<questfile, name, quest>>
resolver == <<cv, result>>

\* let url = self.url(method, vars);
CallUrl ==
    /\ pc = "request"
    /\ \E r \in QuestVars(self, method, extraVars, env) :
          IF r.tag = "Panic"
          THEN /\ pc' = "panic"
               /\ err' = r.v
               /\ UNCHANGED <<vars, url>>
          ELSE LET s == Substitute(self.url, r.v)
               IN  /\ vars' = r.v
                   /\ IF s.tag = "Err"
                      THEN /\ pc' = "panic"
                           /\ err' = "called Result::unwrap() on an Err value"
                           /\ UNCHANGED url
                      ELSE /\ pc' = "params"
                           /\ url' = s.v
                           /\ UNCHANGED err
    /\ UNCHANGED <<inputs, driver, resolver, params, headers, client, req>>

\* let params = self.params(method, params);
CallParams ==
    /\ pc = "params"
    /\ \E r \in QuestParams(self, method, extraParams, env) :
          IF r.tag = "Panic"
          THEN /\ pc' = "panic"
               /\ err' = r.v
               /\ UNCHANGED params
          ELSE /\ pc' = "headers"
               /\ params' = r.v
               /\ UNCHANGED err
    /\ UNCHANGED <<inputs, driver, resolver, vars, url, headers, client, req>>

\* let headers = self.headers(method, headers);
CallHeaders ==
    /\ pc = "headers"
    /\ LET r == QuestHeaders(self, method, extraHeaders, env)
       IN  IF r.tag = "Panic"
           THEN /\ pc' = "panic"
                /\ err' = r.v
                /\ UNCHANGED headers
           ELSE /\ pc' = "client"
                /\ headers' = r.v
                /\ UNCHANGED err
    /\ UNCHANGED <<inputs, driver, resolver, vars, url, params, client, req>>

\* the client with its default headers, the parsed URL and the match on method
Dispatch ==
    /\ pc = "client"
    /\ LET c == DefaultHeaders(headers)
           r == MatchMethod(self, method, ParseWithParams(url, params), c)
       IN  /\ client' = c
           /\ IF r.tag = "Panic"
              THEN /\ pc' = "panic"
                   /\ err' = r.v
                   /\ UNCHANGED req
              ELSE /\ pc' = "done"
                   /\ req' = r.v
                   /\ UNCHANGED err
    /\ UNCHANGED <<inputs, driver, resolver, vars, url, params, headers>>

Next == CallUrl \/ CallParams \/ CallHeaders \/ Dispatch

(***************************************************************************)
(* The inputs of Quest::request.  A quest varies in one kind of layer      *)
(* (vars, params or headers) or in the bodies of its methods.              *)
(***************************************************************************)
\* struct ConfiguredValue
ConfiguredValue(k, v, f) == [key |-> k, value |-> v, from |-> f]

\* struct Send
Send(vs, hs, ps, b, j) == [vars |-> vs, headers |-> hs, params |-> ps, body |-> b, json |-> j]

NoMethods == [m \in {} |-> Send(<<>>, <<>>, <<>>, None, None)]

\* struct Quest
Quest(n, u, vs, hs, ps, ms) ==
    [name |-> n, url |-> u, vars |-> vs, headers |-> hs, params |-> ps, methods |-> ms]

Envs == [{"E"} -> {None, "7"}]

Base == Lit("https://api.example/")
Templates == {<<Base, Ph("a")>>, <<Base, Ph("a"), Lit("/"), Ph("b")>>}

\* entries of a vars or params layer
Entries ==
    {ConfiguredValue("a", "1", None), ConfiguredValue("a", "2", None),
     ConfiguredValue("b", "2", None), ConfiguredValue("a", None, "E"),
     ConfiguredValue("a", None, None)}

\* entries of a headers layer
HeaderEntries ==
    {ConfiguredValue("Content-Type", "1", None), ConfiguredValue("content-type", "2", None),
     ConfiguredValue("Accept", "2", None), ConfiguredValue("Content-Type", None, "E"),
     ConfiguredValue("Content-Type", None, None)}

ExtraVarPairs == {<<"a", "3">>, <<"b", "3">>, <<"a", "$">>}
ExtraParamPairs == {<<"a", "3">>, <<"b", "3">>}
ExtraHeaderPairs == {<<"content-type", "3">>, <<"accept", "3">>}

\* a quest-level list and a method-level list with at most MaxEntries entries
LayerPairs(entries) ==
    {p \in SeqsUpTo(entries, MaxEntries) \X SeqsUpTo(entries, MaxEntries) :
        Len(p[1]) + Len(p[2]) <= MaxEntries}

VarsQuests ==
    {Quest("ping", u, ql, <<>>, <<>>, NoMethods) :
        u \in Templates, ql \in SeqsUpTo(Entries, MaxEntries)}
    \cup {Quest("ping", u, p[1], <<>>, <<>>, [m \in {mm} |-> Send(p[2], <<>>, <<>>, None, None)]) :
        u \in Templates, p \in LayerPairs(Entries), mm \in Methods}

ParamsQuests ==
    {Quest("ping", <<Base>>, <<>>, <<>>, ql, NoMethods) : ql \in SeqsUpTo(Entries, MaxEntries)}
    \cup {Quest("ping", <<Base>>, <<>>, <<>>, p[1], [m \in {mm} |-> Send(<<>>, <<>>, p[2], None, None)]) :
        p \in LayerPairs(Entries), mm \in Methods}

HeadersQuests ==
    {Quest("ping", <<Base>>, <<>>, ql, <<>>, NoMethods) : ql \in SeqsUpTo(HeaderEntries, MaxEntries)}
    \cup {Quest("ping", <<Base>>, <<>>, p[1], <<>>, [m \in {mm} |-> Send(<<>>, p[2], <<>>, None, None)]) :
        p \in LayerPairs(HeaderEntries), mm \in Methods}

Sends == {Send(<<>>, <<>>, <<>>, b, j) : b \in {None, "raw"}, j \in {None, "{}"}}

BodyQuests ==
    {Quest("ping", <<Base>>, <<>>, <<>>, <<>>, ms) : ms \in UNION {[S -> Sends] : S \in SUBSET Methods}}

NoResult == [tag |-> None, v |-> None]
\* Option::None of a quest
NoQuest == [name |-> None, url |-> None, method |-> None, json |-> None, body |-> None]

\* nothing has run
Fresh ==
    /\ vars = <<>>
    /\ url = <<>>
    /\ params = <<>>
    /\ headers = <<>>
    /\ client = <<>>
    /\ req = NoReq
    /\ err = None

Init ==
    /\ pc = "request"
    /\ Fresh
    /\ cv = ConfiguredValue(None, None, None)
    /\ result = NoResult
    /\ questfile = <<>>
    /\ name = None
    /\ quest = NoQuest
    /\ env \in Envs
    /\ method \in Methods
    /\ \/ /\ self \in VarsQuests
          /\ extraVars \in SeqsUpTo(ExtraVarPairs, MaxExtra)
          /\ extraParams = <<>>
          /\ extraHeaders = <<>>
       \/ /\ self \in ParamsQuests
          /\ extraVars = <<>>
          /\ extraParams \in SeqsUpTo(ExtraParamPairs, MaxExtra)
          /\ extraHeaders = <<>>
       \/ /\ self \in HeadersQuests
          /\ extraVars = <<>>
          /\ extraParams = <<>>
          /\ extraHeaders \in SeqsUpTo(ExtraHeaderPairs, MaxExtra)
       \/ /\ self \in BodyQuests
          /\ extraVars = <<>>
          /\ extraParams = <<>>
          /\ extraHeaders = <<>>

Spec == Init /\ [][Next]_allvars

(***************************************************************************)
(* ConfiguredValue::value on its own                                       *)
(***************************************************************************)
ResolveValue ==
    /\ pc = "value"
    /\ result' = Value(cv, env)
    /\ pc' = "resolved"
    /\ UNCHANGED <<inputs, driver, cv, vars, url, params, headers, client, req, err>>

NextValue == ResolveValue

InitValue ==
    /\ pc = "value"
    /\ Fresh
    /\ cv \in {ConfiguredValue("k", v, f) : v \in {None, "1", "2"}, f \in {None, "E", "F"}}
    /\ env \in [{"E", "F"} -> {None, "7", "8"}]
    /\ result = NoResult
    /\ self = Quest(None, <<>>, <<>>, <<>>, <<>>, NoMethods)
    /\ method = Get
    /\ extraVars = <<>>
    /\ extraParams = <<>>
    /\ extraHeaders = <<>>
    /\ questfile = <<>>
    /\ name = None
    /\ quest = NoQuest

SpecValue == InitValue /\ [][NextValue]_allvars

(***************************************************************************)
(* QuestFile::retrieve and the go command of QuestCli::run                 *)
(***************************************************************************)
RetrieveLast(quests, n) ==
    LET hits == {i \in 1..Len(quests) : quests[i].name = n}
    IN  IF hits = {} THEN NoQuest ELSE quests[CHOOSE i \in hits : \A j \in hits : j <= i]

\* self.quests.into_iter().find(|q| q.name.eq(name))
Retrieve(quests, n) ==
    LET hits == {i \in 1..Len(quests) : quests[i].name = n}
    IN  IF hits = {} THEN NoQuest ELSE quests[CHOOSE i \in hits : \A j \in hits : i <= j]

\* questfile.retrieve(&name).expect("Could not find quest with matching name.")
RunRetrieve ==
    /\ pc = "run"
    /\ LET found == Retrieve(questfile, name)
       IN  IF found = NoQuest
           THEN /\ pc' = "panic"
                /\ err' = "Could not find quest with matching name."
                /\ UNCHANGED quest
           ELSE /\ pc' = "resolve"
                /\ quest' = found
                /\ UNCHANGED err
    /\ UNCHANGED <<inputs, questfile, name, resolver, vars, url, params, headers, client, req>>

\* questfile.url(quest, var, param).expect("Could not construct url") and
\* questfile.headers(quest, header): either the URL cannot be constructed, or
\* the URL and the headers are there
RunResolve ==
    /\ pc = "resolve"
    /\ \E constructed \in BOOLEAN :
          IF constructed
          THEN /\ pc' = "build"
               /\ url' = <<Lit(quest.url)>>
               /\ UNCHANGED err
          ELSE /\ pc' = "panic"
               /\ err' = "Could not construct url"
               /\ UNCHANGED url
    /\ UNCHANGED <<inputs, driver, resolver, vars, params, headers, client, req>>

\* .body(json.to_owned()).header("Content-Type", "application/json") when the quest has json
RunJson(r, q) ==
    IF q.json # None
    THEN [r EXCEPT !.body = RawBody(q.json), !.contentType = ApplicationJson]
    ELSE r

\* req.body(body.to_owned()) when the quest has a body
RunBody(r, q) ==
    IF q.body # None THEN [r EXCEPT !.body = RawBody(q.body)] ELSE r

\* client.request(quest.method.into(), url).headers(headers), then json, then body
RunBuild ==
    /\ pc = "build"
    /\ req' = RunBody(RunJson(NewRequest(quest.method, ParseWithParams(url, <<>>), headers), quest), quest)
    /\ pc' = "send"
    /\ UNCHANGED <<inputs, driver, resolver, vars, url, params, headers, client, err>>

\* req.send().unwrap()
RunSend ==
    /\ pc = "send"
    /\ \E answered \in BOOLEAN :
          IF answered
          THEN pc' = "sent" /\ UNCHANGED err
          ELSE pc' = "panic" /\ err' = "called Result::unwrap() on an Err value"
    /\ UNCHANGED <<inputs, driver, resolver, vars, url, params, headers, client, req>>

NextRun == RunRetrieve \/ RunResolve \/ RunBuild \/ RunSend

\* the quests of a file, as the go command reads them
RunQuests ==
    {[name |-> n, url |-> "https://api.example/", method |-> m, json |-> j, body |-> b] :
        n \in {"ping", "pong"}, m \in Methods, j \in {None, "{}"}, b \in {None, "raw"}}

InitRun ==
    /\ pc = "run"
    /\ Fresh
    /\ cv = ConfiguredValue(None, None, None)
    /\ result = NoResult
    /\ env \in Envs
    /\ self = Quest(None, <<>>, <<>>, <<>>, <<>>, NoMethods)
    /\ method = Get
    /\ extraVars = <<>>
    /\ extraParams = <<>>
    /\ extraHeaders = <<>>
    /\ questfile \in SeqsUpTo(RunQuests, MaxQuests)
    /\ name \in {"ping", "pong", "missing"}
    /\ quest = NoQuest

SpecRun == InitRun /\ [][NextRun]_allvars

(***************************************************************************)
(* Properties                                                              *)
(***************************************************************************)
\* positions of Quest::request at which Quest::vars has returned its map
VarsBuilt == {"params", "headers", "client", "done"}
\* positions at which Quest::params has returned its map
ParamsBuilt == {"headers", "client", "done"}
\* positions at which Quest::headers has returned its map
HeadersBuilt == {"client", "done"}

\* the resolved (key, value) pairs of a list of configured values
ResolvedPairs(list) == [i \in 1..Len(list) |-> <<list[i].key, Value(list[i], env).v>>]
\* the quest-level layer of a field
QuestLayer(f) == ResolvedPairs(self[f])
\* the layer of the selected method, empty without an entry for it
MethodLayer(f) ==
    IF method \in DOMAIN self.methods THEN ResolvedPairs(self.methods[method][f]) ELSE <<>>
\* the value a layer gives a key: that of its last entry for the key
Highest(layer, k) ==
    layer[CHOOSE i \in 1..Len(layer) : layer[i][1] = k /\ \A j \in 1..Len(layer) : layer[j][1] = k => j <= i][2]
\* CLI, else the method layer, else the quest layer
Precedence(f, extra, k) ==
    IF k \in KeysOf(extra) THEN Highest(extra, k)
    ELSE IF k \in KeysOf(MethodLayer(f)) THEN Highest(MethodLayer(f), k)
    ELSE Highest(QuestLayer(f), k)
\* h holds every key of the three layers once, with the value of its highest layer
IsMerged(h, f, extra) ==
    /\ KeysOf(h) = KeysOf(QuestLayer(f)) \cup KeysOf(MethodLayer(f)) \cup KeysOf(extra)
    /\ \A i, j \in 1..Len(h) : h[i][1] = h[j][1] => i = j
    /\ \A i \in 1..Len(h) : h[i][2] = Precedence(f, extra, h[i][1])

\* C1: for vars and for params, the merged mapping holds every key of the quest
\* layer, the selected method's layer and the CLI overrides exactly once, with
\* the value of the highest layer that defines it; the URL's query holds one
\* parameter per key, with that value.
C1_LastWriteWins ==
    /\ pc \in VarsBuilt => IsMerged(vars, "vars", extraVars)
    /\ pc \in ParamsBuilt => IsMerged(params, "params", extraParams)
    /\ pc = "done" => IsMerged(req.url.query, "params", extraParams)

\* quest param a=1, method param a=2, CLI override a=3: the URL has the one
\* parameter a=3
C1_Witness ==
    /\ pc = "done"
    /\ self.params = <<ConfiguredValue("a", "1", None)>>
    /\ method \in DOMAIN self.methods
    /\ self.methods[method].params = <<ConfiguredValue("a", "2", None)>>
    /\ extraParams = << <<"a", "3">> >>
    /\ req.url.query = << <<"a", "3">> >>

\* the values pairs holds for a key, in order
RECURSIVE ValuesOf(_, _)
ValuesOf(pairs, k) ==
    IF pairs = <<>> THEN <<>>
    ELSE (IF Head(pairs)[1] = k THEN <<Head(pairs)[2]>> ELSE <<>>) \o ValuesOf(Tail(pairs), k)

\* the headers of all layers, lowest first, with lower-cased names
AllHeaders == Lowercased(QuestLayer("headers") \o MethodLayer("headers") \o extraHeaders)

\* hm holds every name once, with the value of the latest entry of that name
OneHeaderEach(hm) ==
    /\ KeysOf(hm) = KeysOf(AllHeaders)
    /\ \A i, j \in 1..Len(hm) : hm[i][1] = hm[j][1] => i = j
    /\ \A i \in 1..Len(hm) : hm[i][2] = Highest(AllHeaders, hm[i][1])

\* C2 as claimed: the header set built by Quest::headers holds exactly one header
\* under each lower-cased name, with the value of the later layer.
C2_Original == pc \in HeadersBuilt => OneHeaderEach(headers)

\* C2 as amended: the map built by Quest::headers keeps, under the lower-cased
\* name, the values of all entries of that name in layer order; the default
\* header set Quest::request gives the client, and so the request, holds exactly
\* one header under each lower-cased name, with the value of the later layer.
C2_CaseInsensitiveOverride ==
    /\ pc \in HeadersBuilt =>
          /\ KeysOf(headers) = KeysOf(AllHeaders)
          /\ \A k \in KeysOf(AllHeaders) : ValuesOf(headers, k) = ValuesOf(AllHeaders, k)
    /\ pc = "done" => OneHeaderEach(client) /\ req.headers = client

\* Content-Type in the quest, content-type=3 on the command line: both values
\* in the map of Quest::headers, the one header content-type: 3 in the client
C2_Witness ==
    /\ pc = "done"
    /\ self.headers = <<ConfiguredValue("Content-Type", "1", None)>>
    /\ extraHeaders = << <<"content-type", "3">> >>
    /\ headers = << <<"content-type", "1">>, <<"content-type", "3">> >>
    /\ client = << <<"content-type", "3">> >>

\* C3 as claimed: the URL Quest::url returns has every placeholder replaced by
\* the value of its key, and a template with a placeholder that has no key never
\* yields a URL: the call fails.
C3_Original ==
    pc \in VarsBuilt =>
        /\ Placeholders(url) = {}
        /\ \A i \in 1..Len(self.url) :
              self.url[i].ph => url[i] = Lit(Lookup(vars, self.url[i].text))

\* the keys of h come in the order in which the layers first introduce them
FirstSeenOrder(h, f, extra) ==
    LET all == QuestLayer(f) \o MethodLayer(f) \o extra
    IN  \A a, b \in 1..Len(h) : a < b => FirstIndex(all, h[a][1]) < FirstIndex(all, h[b][1])

\* C4 as claimed: the merged mapping enumerates its keys in the order in which
\* the concatenated layers first introduce them, and the query parameters of
\* the URL come in that order.
C4_Original ==
    /\ pc \in VarsBuilt => FirstSeenOrder(vars, "vars", extraVars)
    /\ pc \in ParamsBuilt => FirstSeenOrder(params, "params", extraParams)
    /\ pc = "done" => FirstSeenOrder(req.url.query, "params", extraParams)

\* C5: a value with a literal resolves to the literal whatever the environment
\* holds; one with only an env indirection resolves to the variable's value when
\* it is set and fails as missing when it is not; one with neither fails as
\* misconfigured.
C5_ValueResolution ==
    pc = "resolved" =>
        /\ cv.value # None => result = Ok(cv.value)
        /\ (cv.value = None /\ cv.from # None /\ env[cv.from] # None) => result = Ok(env[cv.from])
        /\ (cv.value = None /\ cv.from # None /\ env[cv.from] = None) => result = Err("NotPresent")
        /\ (cv.value = None /\ cv.from = None) => result.tag = "Panic"

\* a literal next to an indirection whose variable is set: the literal
C5_Witness ==
    /\ pc = "resolved"
    /\ cv.value = "1"
    /\ cv.from = "E"
    /\ env["E"] = "7"
    /\ result = Ok("1")

\* the places of the quests of that name in the file
Named(n) == {i \in 1..Len(questfile) : questfile[i].name = n}

\* C6: retrieve returns the first quest of the file with exactly that name, and
\* none when no quest has it; the driver then ends in an error and no request
\* is built or sent.
C6_FirstMatch ==
    pc # "run" =>
        IF Named(name) = {}
        THEN pc = "panic" /\ err = "Could not find quest with matching name."
             /\ quest = NoQuest /\ req = NoReq
        ELSE \E i \in Named(name) : quest = questfile[i] /\ \A j \in Named(name) : i <= j

\* two different quests of the same name: the request is sent for the first
C6_Witness ==
    /\ pc = "sent"
    /\ Len(questfile) = 2
    /\ questfile[1].name = name
    /\ questfile[2].name = name
    /\ questfile[1] # questfile[2]
    /\ quest = questfile[1]

\* C7 as claimed: for a quest without an entry for the requested method,
\* Quest::request fails, for GET as for POST, and builds no request.
C7_Original == method \notin DOMAIN self.methods => pc # "done" /\ req = NoReq

\* C8 as claimed: for a body-carrying method the body is the JSON content, with
\* the JSON content type, whenever JSON content is declared, also next to raw
\* content; the raw content when only that is declared; none otherwise.
C8_Original ==
    (pc \in {"send", "sent"} /\ quest.method = Post) =>
        /\ quest.json # None => req.body.content = quest.json /\ req.contentType = ApplicationJson
        /\ (quest.json = None /\ quest.body # None) => req.body = RawBody(quest.body)
        /\ (quest.json = None /\ quest.body = None) => req.body = NoBody

\* C9 as claimed: a request for GET carries no body, whatever json or body the
\* quest declares, and the declaration does not make the resolution fail.
C9_Original ==
    /\ (pc \in {"send", "sent"} /\ quest.method = Get) => req.body = NoBody
    /\ (pc = "build" /\ quest.method = Get) => ENABLED RunBuild

\* an entry of the quest level or of the selected method whose env indirection
\* names an unset variable
Unset(list) ==
    \E i \in 1..Len(list) :
        list[i].value = None /\ list[i].from # None /\ env[list[i].from] = None

Failing(f) == Unset(Configured(self, method, f))

\* C10: when an entry of the quest-level or selected method-level layer does not
\* resolve because its variable is unset, the merge fails as a whole and yields
\* no mapping, also when a later layer gives the same key a value.
C10_NoPartialMerge ==
    /\ (Failing("vars") /\ pc # "request") => pc = "panic" /\ vars = <<>> /\ req = NoReq
    /\ (Failing("params") /\ pc \notin {"request", "params"}) =>
          pc = "panic" /\ params = <<>> /\ req = NoReq
    /\ (Failing("headers") /\ pc \notin {"request", "params", "headers"}) =>
          pc = "panic" /\ headers = <<>> /\ req = NoReq

\* the quest's param a names the unset E, the command line gives a=3: the
\* merge panics
C10_Witness ==
    /\ pc = "panic"
    /\ err = "Missing environment variable"
    /\ self.params = <<ConfiguredValue("a", None, "E")>>
    /\ env["E"] = None
    /\ extraParams = << <<"a", "3">> >>
    /\ params = <<>>

=============================================================================
